---- MODULE Spec2Model ----
(***************************************************************************)
(* Market pattern learning pipeline (backend/ml): rolling window           *)
(* statistics, per-instrument feature extraction, NaN-row dropping,        *)
(* greedy cluster -> pattern mapping, pattern statistics and the published *)
(* pattern catalog.                                                        *)
(*                                                                         *)
(* Floating point values are kept exact:                                   *)
(*   <<"nan">>          NaN                                                *)
(*   <<"q", n, d>>      the rational n/d in lowest terms, d >= 0;          *)
(*                      d = 0 is +inf (n = 1) or -inf (n = -1)             *)
(*   <<"ln", n, d>>     ln(n/d) of a positive finite rational              *)
(*   <<"std", w>>       sample standard deviation of the values in w       *)
(*   <<"sum", w>>       sum of the values in w                             *)
(* The percentage of calculate_pattern_stats is the exception: it is       *)
(* computed in IEEE 754 binary64 arithmetic on the 53-bit significand,     *)
(* because its rounding to two decimals depends on the rounding errors of  *)
(* the division and of the multiplication before it.                       *)
(* A pandas Series is a sequence of cells [ix, v, src]: ix is the index    *)
(* label, v the value, and src (a history field, not program state) the    *)
(* set of index labels of the input rows the value was computed from.      *)
(***************************************************************************)
EXTENDS Integers, Sequences, FiniteSets, TLC

VARIABLES
    pc,               \* position of the running function
    df,               \* input DataFrame: sequence of OHLCV rows
    stocks,           \* extract_features_batch: df[stock_column].unique()
    i,                \* extract_features_batch: loop index
    all_features,     \* extract_features_batch: list of per-stock frames
    features_df,      \* result of extract_features_batch
    X,                \* prepare_features: clean feature matrix
    metadata,         \* prepare_features: (date, stock) of the rows of X
    feature_cols,     \* ordered feature schema
    centroids,        \* kmeans.cluster_centers_, row c + 1 for cluster c
    n_clusters,       \* len(centroids)
    cluster_id,       \* map_clusters_to_patterns: loop variable
    pattern_mapping,  \* cluster id -> pattern id
    used_patterns,    \* set of claimed pattern ids
    labels,           \* cluster label of every clean row
    pattern_stats,    \* pattern id -> {sampleCount, percentage}
    patterns,         \* published catalog (patterns.json)
    templates,        \* the module-level dict PATTERN_TEMPLATES
    close,            \* window statistics: input series
    window,           \* window statistics: window length
    result            \* window statistics: output series

vars == <<pc, df, stocks, i, all_features, features_df, X, metadata,
          feature_cols, centroids, n_clusters, cluster_id, pattern_mapping,
          used_patterns, labels, pattern_stats, patterns, templates,
          close, window, result>>

featVars == <<df, stocks, i, all_features, features_df, X, metadata>>
mapVars == <<feature_cols, centroids, n_clusters, cluster_id,
             pattern_mapping, used_patterns>>
outVars == <<labels, pattern_stats, patterns, templates>>
statVars == <<close, window, result>>

-----------------------------------------------------------------------------
(* Bounds of the model.                                                    *)

MaxLen == 4         \* longest series given to a single window statistic
MaxAbs == 2         \* closes of that series range over -MaxAbs..MaxAbs
MaxWindow == 3      \* window lengths 1..MaxWindow for that series
MaxRowsA == 21      \* rows of the first instrument of a dataset
MaxRowsB == 2       \* rows of the second instrument of a dataset
MaxClusters == 10   \* number of clusters k ranges over 0..MaxClusters
MaxLabels == 3      \* short label vectors have 1..MaxLabels rows
MaxExtra == 1       \* rows beyond one per cluster in long label vectors

-----------------------------------------------------------------------------
(* Exact arithmetic on float values.                                       *)

Abs(x) == IF x < 0 THEN -x ELSE x

Sign(x) == IF x < 0 THEN -1 ELSE IF x = 0 THEN 0 ELSE 1

RECURSIVE GCD(_, _)
GCD(a, b) == IF b = 0 THEN a ELSE GCD(b, a % b)

NaN == <<"nan">>

Q(n, d) ==
    IF d = 0
    THEN IF n = 0 THEN NaN ELSE <<"q", Sign(n), 0>>
    ELSE LET g == GCD(Abs(n), Abs(d))
         IN  <<"q", (Sign(d) * n) \div g, Abs(d) \div g>>

IntV(x) == <<"q", x, 1>>

IsNaN(v) == v = NaN

IsInf(v) == v[1] = "q" /\ v[3] = 0

\* a - b and a / b on rationals, infinities or NaN (numpy semantics: x/0 is
\* +-inf, 0/0, inf - inf and inf/inf are nan)
Sub(a, b) == IF IsNaN(a) \/ IsNaN(b) THEN NaN
             ELSE IF IsInf(a) THEN (IF IsInf(b) /\ a[2] = b[2] THEN NaN ELSE a)
             ELSE IF IsInf(b) THEN Q(-b[2], 0)
             ELSE Q(a[2] * b[3] - b[2] * a[3], a[3] * b[3])

Div(a, b) == IF IsNaN(a) \/ IsNaN(b) THEN NaN
             ELSE IF IsInf(a)
                  THEN (IF IsInf(b) THEN NaN
                        ELSE Q(IF b[2] < 0 THEN -a[2] ELSE a[2], 0))
             ELSE IF IsInf(b) THEN IntV(0)
             ELSE Q(a[2] * b[3], a[3] * b[2])

\* np.log: nan for a negative argument, -inf at 0, +inf at +inf
Log(v) == IF IsNaN(v) THEN NaN
          ELSE IF v[2] < 0 THEN NaN
          ELSE IF v[2] = 0 THEN <<"q", -1, 0>>
          ELSE IF v[3] = 0 THEN v
          ELSE <<"ln", v[2], v[3]>>

RECURSIVE SumInts(_)
SumInts(s) == IF s = <<>> THEN 0 ELSE Head(s) + SumInts(Tail(s))

RECURSIVE MaxInts(_)
MaxInts(s) == IF Len(s) = 1 THEN s[1]
              ELSE LET m == MaxInts(Tail(s)) IN IF s[1] >= m THEN s[1] ELSE m

Cell(ix, v, src) == [ix |-> ix, v |-> v, src |-> src]

\* the integers of a run of cells holding integer values
Ints(cells) == [j \in 1..Len(cells) |-> cells[j].v[2]]

Vals(cells) == [j \in 1..Len(cells) |-> cells[j].v]

-----------------------------------------------------------------------------
(* pandas Series.rolling(window=w, min_periods=w): the value at position t *)
(* is F of the trailing w cells when t >= w and every one of them is a     *)
(* finite number, and NaN otherwise (rolling turns +-inf into NaN before   *)
(* it aggregates, so an infinite cell counts as a missing observation).    *)
(* The statistic is "std", "sum", "max" or "mean".                         *)

WinLo(t, w) == IF t - w + 1 < 1 THEN 1 ELSE t - w + 1

\* the window is complete and np.isnan(y_window).any() is false
WinNoNaN(s, t, w) == t >= w /\ \A j \in (t - w + 1)..t : ~IsNaN(s[j].v)

WinFull(s, t, w) ==
    t >= w /\ \A j \in (t - w + 1)..t : ~IsNaN(s[j].v) /\ ~IsInf(s[j].v)

WinSrc(s, t, w) == UNION {s[j].src : j \in WinLo(t, w)..t}

StdOf(cells) == IF Len(cells) < 2 THEN NaN ELSE <<"std", Vals(cells)>>

SumOf(cells) == <<"sum", Vals(cells)>>

MaxOf(cells) == IntV(MaxInts(Ints(cells)))

MeanOf(cells) == Q(SumInts(Ints(cells)), Len(cells))

Aggregate(stat, cells) ==
    CASE stat = "std" -> StdOf(cells)
      [] stat = "sum" -> SumOf(cells)
      [] stat = "max" -> MaxOf(cells)
      [] OTHER -> MeanOf(cells)

Rolling(s, w, stat) ==
    [t \in 1..Len(s) |->
        Cell(s[t].ix,
             IF WinFull(s, t, w) THEN Aggregate(stat, SubSeq(s, t - w + 1, t)) ELSE NaN,
             WinSrc(s, t, w))]

\* Series.replace(0, np.nan)
Replace0(s) == [t \in 1..Len(s) |->
                  Cell(s[t].ix, IF s[t].v = IntV(0) THEN NaN ELSE s[t].v, s[t].src)]

\* element-wise a - b and a / b of two series with the same index
SeriesSub(a, b) == [t \in 1..Len(a) |->
                      Cell(a[t].ix, Sub(a[t].v, b[t].v), a[t].src \cup b[t].src)]

SeriesDiv(a, b) == [t \in 1..Len(a) |->
                      Cell(a[t].ix, Div(a[t].v, b[t].v), a[t].src \cup b[t].src)]

\* Series.shift(1)
Shift1(s) == [t \in 1..Len(s) |->
                IF t = 1 THEN Cell(s[t].ix, NaN, {})
                ELSE Cell(s[t].ix, s[t - 1].v, s[t - 1].src)]

-----------------------------------------------------------------------------
(* feature_engineering.py: the window statistics.                          *)

\* mutant: the undefined first return filled with 0
calculate_log_returns_filled(c) ==
    LET ratio == SeriesDiv(c, Shift1(c))
    IN  [t \in 1..Len(c) |->
            Cell(ratio[t].ix, IF t = 1 THEN IntV(0) ELSE Log(ratio[t].v),
                 ratio[t].src)]

calculate_log_returns(c) ==
    LET ratio == SeriesDiv(c, Shift1(c))
    IN  [t \in 1..Len(c) |-> Cell(ratio[t].ix, Log(ratio[t].v), ratio[t].src)]

calculate_volatility(returns, w) == Rolling(returns, w, "std")

RECURSIVE SumXY(_, _)
SumXY(ys, x0) == IF ys = <<>> THEN 0 ELSE x0 * Head(ys) + SumXY(Tail(ys), x0 + 1)

calculate_trend_slope_fast(c, w) ==
    LET xs == [j \in 1..w |-> j - 1]
        sum_x == SumInts(xs)
        sum_x_sq == SumInts([j \in 1..w |-> xs[j] * xs[j]])
        denominator == w * sum_x_sq - sum_x * sum_x
    IN  [t \in 1..Len(c) |->
            Cell(c[t].ix,
                 IF WinNoNaN(c, t, w) /\ denominator # 0
                 THEN IF WinFull(c, t, w)
                      THEN LET y_window == Ints(SubSeq(c, t - w + 1, t))
                           IN  Q(w * SumXY(y_window, 0) - sum_x * SumInts(y_window),
                                 denominator)
                      \* an infinite close: sum_xy and sum_y are infinite or
                      \* nan, and the numerator is inf - inf
                      ELSE NaN
                 ELSE NaN,
                 WinSrc(c, t, w))]

\* mutant: the rolling minimum taken in place of the rolling maximum
calculate_drawdown_min(c, w) ==
    LET neg == [t \in 1..Len(c) |-> Cell(c[t].ix, Sub(IntV(0), c[t].v), c[t].src)]
        neg_max == Rolling(neg, w, "max")
        rolling_min == [t \in 1..Len(c) |->
                          Cell(c[t].ix, Sub(IntV(0), neg_max[t].v), neg_max[t].src)]
    IN  SeriesDiv(SeriesSub(c, rolling_min), rolling_min)

calculate_drawdown(c, w) ==
    LET rolling_max == Rolling(c, w, "max")
    IN  SeriesDiv(SeriesSub(c, rolling_max), rolling_max)

calculate_volume_ratio(volume, w) ==
    LET avg_volume == Rolling(volume, w, "mean")
    IN  SeriesDiv(volume, Replace0(avg_volume))

calculate_range_compression(high, low, w) ==
    LET daily_range == SeriesSub(high, low)
        avg_range == Rolling(daily_range, w, "mean")
    IN  SeriesDiv(daily_range, Replace0(avg_range))

calculate_momentum(returns, w) == Rolling(returns, w, "sum")

-----------------------------------------------------------------------------
(* feature_engineering.py: extract_features and extract_features_batch.    *)
(* A DataFrame is a sequence of rows [ix, Date, Stock, High, Low, Close,   *)
(* Volume]; Date is an integer day, the prices and the volume are float    *)
(* values. A feature frame is a sequence of rows [ix, date, stock, f] with *)
(* f the record of the 11 feature cells [v, src].                          *)

FeatureCols == <<"volatility_5d", "volatility_10d", "volatility_20d",
                 "trend_slope_10d", "trend_slope_20d", "drawdown_20d",
                 "volume_ratio_10d", "volume_ratio_20d",
                 "range_compression_10d", "momentum_5d", "momentum_10d">>

FeatureNames == {FeatureCols[j] : j \in 1..Len(FeatureCols)}

Column(d, name) == [t \in 1..Len(d) |-> Cell(d[t].ix, d[t][name], {d[t].ix})]

FCell(c) == [v |-> c.v, src |-> c.src]

extract_features(d) ==
    LET cl == Column(d, "Close")
        high == Column(d, "High")
        low == Column(d, "Low")
        volume == Column(d, "Volume")
        returns == calculate_log_returns(cl)
        vol5 == calculate_volatility(returns, 5)
        vol10 == calculate_volatility(returns, 10)
        vol20 == calculate_volatility(returns, 20)
        ts10 == calculate_trend_slope_fast(cl, 10)
        ts20 == calculate_trend_slope_fast(cl, 20)
        dd20 == calculate_drawdown(cl, 20)
        vr10 == calculate_volume_ratio(volume, 10)
        vr20 == calculate_volume_ratio(volume, 20)
        rc10 == calculate_range_compression(high, low, 10)
        mom5 == calculate_momentum(returns, 5)
        mom10 == calculate_momentum(returns, 10)
    IN  [t \in 1..Len(d) |->
            [ix |-> d[t].ix,
             date |-> d[t].Date,
             f |-> [volatility_5d |-> FCell(vol5[t]),
                    volatility_10d |-> FCell(vol10[t]),
                    volatility_20d |-> FCell(vol20[t]),
                    trend_slope_10d |-> FCell(ts10[t]),
                    trend_slope_20d |-> FCell(ts20[t]),
                    drawdown_20d |-> FCell(dd20[t]),
                    volume_ratio_10d |-> FCell(vr10[t]),
                    volume_ratio_20d |-> FCell(vr20[t]),
                    range_compression_10d |-> FCell(rc10[t]),
                    momentum_5d |-> FCell(mom5[t]),
                    momentum_10d |-> FCell(mom10[t])]]]

\* df[stock_column].unique(): the distinct values in order of first appearance
RECURSIVE Unique(_)
Unique(s) ==
    IF s = <<>> THEN <<>>
    ELSE LET init == Unique(SubSeq(s, 1, Len(s) - 1))
             last == s[Len(s)]
         IN  IF \E j \in 1..Len(init) : init[j] = last THEN init
             ELSE Append(init, last)

\* df[df[stock_column] == stock]
SelectAll(d, stock) == d

SelectStock(d, stock) == SelectSeq(d, LAMBDA r : r.Stock = stock)

\* DataFrame.sort_values('Date'): ascending by Date (the dates of one
\* instrument are distinct, so the order is determined)
RECURSIVE InsertByDate(_, _)
InsertByDate(sorted, r) ==
    IF sorted = <<>> THEN <<r>>
    ELSE IF r.Date < Head(sorted).Date THEN <<r>> \o sorted
    ELSE <<Head(sorted)>> \o InsertByDate(Tail(sorted), r)

RECURSIVE SortByDate(_)
SortByDate(d) ==
    IF d = <<>> THEN <<>>
    ELSE InsertByDate(SortByDate(SubSeq(d, 1, Len(d) - 1)), d[Len(d)])

\* the body of the per-stock loop: select, sort, extract, tag
StockFeatures(d, stock) ==
    LET stock_data == SortByDate(SelectStock(d, stock))
        features == extract_features(stock_data)
    IN  [t \in 1..Len(features) |->
            [ix |-> features[t].ix, date |-> features[t].date,
             stock |-> stock, f |-> features[t].f]]

\* pd.concat(all_features, ignore_index=True)
RECURSIVE Flatten(_)
Flatten(frames) ==
    IF frames = <<>> THEN <<>> ELSE Head(frames) \o Flatten(Tail(frames))

\* pd.concat raises ValueError('No objects to concatenate') on an empty list
ConcatRaises(frames) == frames = <<>>

ValueError == <<"ValueError">>

Concat(frames) ==
    IF ConcatRaises(frames) THEN ValueError
    ELSE LET rows == Flatten(frames)
         IN  [t \in 1..Len(rows) |->
                 [ix |-> t - 1, date |-> rows[t].date,
                  stock |-> rows[t].stock, f |-> rows[t].f]]

RECURSIVE BatchFrames(_, _)
BatchFrames(d, ss) ==
    IF ss = <<>> THEN <<>>
    ELSE <<StockFeatures(d, Head(ss))>> \o BatchFrames(d, Tail(ss))

extract_features_batch(d) ==
    Concat(BatchFrames(d, Unique([t \in 1..Len(d) |-> d[t].Stock])))

-----------------------------------------------------------------------------
(* pattern_learning.py: prepare_features.                                  *)

\* DataFrame.dropna(): a row is dropped when any of its columns is NaN
\* (date and stock are always present in the modelled datasets)
HasNaN(r) == \E name \in FeatureNames : IsNaN(r.f[name].v)

FillNa(frame) ==
    [t \in 1..Len(frame) |->
        [frame[t] EXCEPT !.f =
            [name \in FeatureNames |->
                IF IsNaN(frame[t].f[name].v)
                THEN [v |-> IntV(0), src |-> frame[t].f[name].src]
                ELSE frame[t].f[name]]]]

DropNa(frame) == SelectSeq(frame, LAMBDA r : ~HasNaN(r))

\* clean_df[feature_cols].values
Values(frame, cols) ==
    [t \in 1..Len(frame) |-> [j \in 1..Len(cols) |-> frame[t].f[cols[j]].v]]

\* clean_df[['date', 'stock']]
Meta(frame) ==
    [t \in 1..Len(frame) |-> [date |-> frame[t].date, stock |-> frame[t].stock]]

-----------------------------------------------------------------------------
(* The feature pipeline on bounded two-instrument datasets.                *)
(* Session j (0-based) of an instrument has Date j + 1. Price patterns:    *)
(*   wave    clean: closes move, high > low, volume > 0                    *)
(*   flat    clean: constant close, high = low = close, volume > 0         *)
(*   halted  as flat with zero volume                                      *)
(*   gap     as wave with the close of session 1 missing (NaN)             *)
(*   zero    as wave with the close of session 1 equal to 0, which makes   *)
(*           the log returns of sessions 1 and 2 -inf and +inf             *)

PricePatterns == {"wave", "flat", "halted", "gap", "zero"}

Base(stock) == IF stock = "A" THEN 10 ELSE 50

SessionRow(stock, j, pat) ==
    LET moving == pat \in {"wave", "gap", "zero"}
        c == IF moving THEN Base(stock) + ((2 * j) % 5) ELSE Base(stock)
        r == IF moving THEN 1 + (j % 2) ELSE 0
    IN  [Date |-> j + 1, Stock |-> stock,
         High |-> IntV(c + r), Low |-> IntV(c - r),
         Close |-> IF pat = "gap" /\ j = 1 THEN NaN
                   ELSE IF pat = "zero" /\ j = 1 THEN IntV(0)
                   ELSE IntV(c),
         Volume |-> IntV(IF pat = "halted" THEN 0 ELSE 1 + (j % 3))]

StockRows(stock, n, pat, order) ==
    [t \in 1..n |-> SessionRow(stock, IF order = "asc" THEN t - 1 ELSE n - t, pat)]

RECURSIVE Interleave(_, _)
Interleave(a, b) ==
    IF a = <<>> THEN b
    ELSE IF b = <<>> THEN a
    ELSE <<Head(a), Head(b)>> \o Interleave(Tail(a), Tail(b))

\* the RangeIndex 0..n-1 given by read_csv
WithIndex(rows) ==
    [t \in 1..Len(rows) |->
        [ix |-> t - 1, Date |-> rows[t].Date, Stock |-> rows[t].Stock,
         High |-> rows[t].High, Low |-> rows[t].Low,
         Close |-> rows[t].Close, Volume |-> rows[t].Volume]]

Dataset(nA, nB, pat, order, layout) ==
    LET a == StockRows("A", nA, pat, order)
        b == StockRows("B", nB, pat, order)
    IN  WithIndex(CASE layout = "AB" -> a \o b
                    [] layout = "BA" -> b \o a
                    [] OTHER -> Interleave(a, b))

\* every price pattern in file order A then B by ascending date, and the
\* wave pattern in every layout and date order
Datasets ==
    {Dataset(nA, nB, pat, "asc", "AB") :
        nA \in 0..MaxRowsA, nB \in 0..MaxRowsB, pat \in PricePatterns}
    \cup
    {Dataset(nA, nB, "wave", order, layout) :
        nA \in 0..MaxRowsA, nB \in 0..MaxRowsB,
        order \in {"asc", "desc"}, layout \in {"AB", "BA", "mix"}}

InitFeat ==
    /\ pc = "batch"
    /\ df \in Datasets
    /\ stocks = <<>> /\ i = 0 /\ all_features = <<>>
    /\ features_df = <<>> /\ X = <<>> /\ metadata = <<>>
    /\ feature_cols = <<>> /\ centroids = <<>> /\ n_clusters = 0
    /\ cluster_id = 0 /\ pattern_mapping = <<>> /\ used_patterns = {}
    /\ labels = <<>> /\ pattern_stats = <<>> /\ patterns = <<>>
    /\ templates = <<>>
    /\ close = <<>> /\ window = 0 /\ result = <<>>

\* extract_features_batch, lines 122-124
BatchBegin ==
    /\ pc = "batch"
    /\ stocks' = Unique([t \in 1..Len(df) |-> df[t].Stock])
    /\ all_features' = <<>>
    /\ i' = 0
    /\ pc' = "loop"
    /\ UNCHANGED <<df, features_df, X, metadata, mapVars, outVars, statVars>>

\* one iteration of the loop over stocks, lines 128-139
BatchIter ==
    /\ pc = "loop"
    /\ i < Len(stocks)
    /\ all_features' = Append(all_features, StockFeatures(df, stocks[i + 1]))
    /\ i' = i + 1
    /\ UNCHANGED <<pc, df, stocks, features_df, X, metadata, mapVars, outVars,
                   statVars>>

\* lines 141-145, returning into prepare_features line 142; with no stock
\* (an empty DataFrame) pd.concat raises and the ValueError leaves
\* extract_features_batch and prepare_features
BatchConcat ==
    /\ pc = "loop"
    /\ i = Len(stocks)
    /\ IF ConcatRaises(all_features)
       THEN /\ pc' = "raised"
            /\ UNCHANGED features_df
       ELSE /\ features_df' = Concat(all_features)
            /\ pc' = "dropna"
    /\ UNCHANGED <<df, stocks, i, all_features, X, metadata, mapVars, outVars,
                   statVars>>

\* prepare_features, lines 145-154
PrepareFeatures ==
    /\ pc = "dropna"
    /\ LET clean_df == DropNa(features_df)
       IN  /\ feature_cols' = FeatureCols
           /\ X' = Values(clean_df, FeatureCols)
           /\ metadata' = Meta(clean_df)
    /\ pc' = "prepared"
    /\ UNCHANGED <<df, stocks, i, all_features, features_df, centroids,
                   n_clusters, cluster_id, pattern_mapping, used_patterns,
                   outVars, statVars>>

NextFeat == BatchBegin \/ BatchIter \/ BatchConcat \/ PrepareFeatures

SpecFeat == InitFeat /\ [][NextFeat]_vars

IsClean(d) ==
    \A t \in 1..Len(d) :
        \A col \in {"High", "Low", "Close", "Volume"} :
            ~IsNaN(d[t][col]) /\ d[t][col][2] > 0

\* window length of each feature
FeatureWindow(name) ==
    CASE name \in {"volatility_5d", "momentum_5d"} -> 5
      [] name \in {"volatility_20d", "trend_slope_20d", "drawdown_20d",
                   "volume_ratio_20d"} -> 20
      [] OTHER -> 10

ReturnFeatures == {"volatility_5d", "volatility_10d", "volatility_20d",
                   "momentum_5d", "momentum_10d"}

\* the date-sorted input rows of the instrument of a per-stock frame
FrameInput(k) == SortByDate(SelectSeq(df, LAMBDA r : r.Stock = stocks[k]))

\* sum of high - low over the w rows of `rows` ending at position t
RangeSum(rows, t, w) ==
    SumInts([j \in 1..w |-> rows[t - w + j].High[2] - rows[t - w + j].Low[2]])

\* C3 (as stated): on clean input every feature is undefined at every row
\* index < w - 1 and defined at every row index >= w - 1.
C3_DefinedFromWindowAll ==
    IsClean(df) =>
        \A k \in 1..Len(all_features) : \A t \in 1..Len(all_features[k]) :
            \A name \in FeatureNames :
                IsNaN(all_features[k][t].f[name].v)
                    <=> (t - 1 < FeatureWindow(name) - 1)

\* C3 (amended): on clean input every feature is undefined at every row
\* index < w - 1; trend slope, drawdown and volume ratio are defined at every
\* index >= w - 1; volatility and momentum, which read w log returns, are
\* undefined at index w - 1 and defined at every index >= w; range
\* compression is defined at an index >= w - 1 exactly when the trailing w
\* values of high - low do not sum to zero.
C3_DefinedFromWindow ==
    IsClean(df) =>
        \A k \in 1..Len(all_features) :
            LET rows == FrameInput(k)
            IN  /\ Len(all_features[k]) = Len(rows)
                /\ \A t \in 1..Len(all_features[k]) : \A name \in FeatureNames :
                     LET w == FeatureWindow(name)
                         defined == ~IsNaN(all_features[k][t].f[name].v)
                     IN  IF name \in ReturnFeatures THEN defined <=> (t - 1 >= w)
                         ELSE IF name = "range_compression_10d"
                         THEN defined <=> (t - 1 >= w - 1
                                            /\ RangeSum(rows, t, w) # 0)
                         ELSE defined <=> (t - 1 >= w - 1)

C3_Witness ==
    /\ IsClean(df)
    /\ \E k \in 1..Len(all_features) :
          /\ Len(all_features[k]) >= 21
          /\ IsNaN(all_features[k][20].f["volatility_20d"].v)
          /\ ~IsNaN(all_features[k][20].f["trend_slope_20d"].v)
          /\ ~IsNaN(all_features[k][21].f["volatility_20d"].v)
          /\ ~IsNaN(all_features[k][10].f["range_compression_10d"].v)

InputIxs(stock, date) ==
    {df[t].ix : t \in {u \in 1..Len(df) : df[u].Stock = stock /\ df[u].Date <= date}}

FirstSeen(stock) ==
    CHOOSE t \in 1..Len(df) :
        /\ df[t].Stock = stock
        /\ \A u \in 1..(t - 1) : df[u].Stock # stock

\* C4: every feature value of an output row of extract_features_batch is
\* computed only from input rows of the same instrument dated no later than
\* the row; the output has one row per input row, each instrument's rows
\* contiguous in ascending date order, instruments in first-seen order.
C4_NoCrossInstrument ==
    pc \in {"dropna", "prepared"} =>
        /\ Len(features_df) = Len(df)
        /\ \A t \in 1..Len(df) :
              Cardinality({u \in 1..Len(features_df) :
                              /\ features_df[u].stock = df[t].Stock
                              /\ features_df[u].date = df[t].Date}) = 1
        /\ \A u \in 1..Len(features_df) : \A name \in FeatureNames :
              features_df[u].f[name].src
                  \subseteq InputIxs(features_df[u].stock, features_df[u].date)
        /\ \A u, v \in 1..Len(features_df) :
              u < v =>
                  \/ FirstSeen(features_df[u].stock) < FirstSeen(features_df[v].stock)
                  \/ /\ features_df[u].stock = features_df[v].stock
                     /\ features_df[u].date < features_df[v].date

C4_Witness ==
    /\ pc = "dropna"
    /\ Len(df) >= 4
    /\ df[1].Stock = "A" /\ df[2].Stock = "B" /\ df[3].Stock = "A"
    /\ df[1].Date > df[3].Date
    /\ \E u \in 1..Len(features_df) :
          /\ features_df[u].stock = "A"
          /\ ~IsNaN(features_df[u].f["momentum_10d"].v)
          /\ Cardinality(features_df[u].f["momentum_10d"].src) = 11

KeptRows == {t \in 1..Len(features_df) :
                \A name \in FeatureNames : ~IsNaN(features_df[t].f[name].v)}

-----------------------------------------------------------------------------
(* A single window statistic applied to a bounded series.                  *)

CloseVals == {NaN} \cup {IntV(x) : x \in (-MaxAbs)..MaxAbs}

RawSeries(vs) == [t \in 1..Len(vs) |-> Cell(t - 1, vs[t], {t - 1})]

SeqsUpTo(S, n) == UNION {[1..m -> S] : m \in 0..n}

InitStat ==
    /\ pc = "series"
    /\ close \in {RawSeries(vs) : vs \in SeqsUpTo(CloseVals, MaxLen)}
    /\ window \in 1..MaxWindow
    /\ result = <<>>
    /\ df = <<>> /\ stocks = <<>> /\ i = 0 /\ all_features = <<>>
    /\ features_df = <<>> /\ X = <<>> /\ metadata = <<>>
    /\ feature_cols = <<>> /\ centroids = <<>> /\ n_clusters = 0
    /\ cluster_id = 0 /\ pattern_mapping = <<>> /\ used_patterns = {}
    /\ labels = <<>> /\ pattern_stats = <<>> /\ patterns = <<>>
    /\ templates = <<>>

ApplyDrawdown ==
    /\ pc = "series"
    /\ result' = calculate_drawdown(close, window)
    /\ pc' = "drawdown"
    /\ UNCHANGED <<featVars, mapVars, outVars, close, window>>

NextStat == ApplyDrawdown

SpecStat == InitStat /\ [][NextStat]_vars

\* v <= 0 for a defined float value (a rational or an infinity)
LeqZero(v) == v[1] = "q" /\ v[2] <= 0

\* C6 (as stated): every defined value produced by calculate_drawdown is <= 0
\* for every numeric close series, zero and negative closes included.
C6_DrawdownNonPositiveAll ==
    pc = "drawdown" =>
        \A t \in 1..Len(result) : ~IsNaN(result[t].v) => LeqZero(result[t].v)

TrailingMax(t) == MaxInts(Ints(SubSeq(close, t - window + 1, t)))

\* C6 (amended): a defined drawdown value is <= 0 whenever the maximum of the
\* trailing window is not negative, and it is defined only once the window
\* holds `window` closes.
C6_DrawdownNonPositive ==
    pc = "drawdown" =>
        /\ Len(result) = Len(close)
        /\ \A t \in 1..Len(result) :
              ~IsNaN(result[t].v) =>
                  /\ WinFull(close, t, window)
                  /\ TrailingMax(t) >= 0 => LeqZero(result[t].v)

C6_Witness ==
    /\ pc = "drawdown"
    /\ window = 2
    /\ \E t \in 1..Len(result) :
          /\ WinFull(close, t, window)
          /\ TrailingMax(t) > 0
          /\ result[t].v = Q(-1, 2)

-----------------------------------------------------------------------------
(* pattern_learning.py: PATTERN_TEMPLATES.                                 *)

TemplateP1 ==
    [name |-> "Low Volatility Range-Bound",
     description |-> "Flat trend, low volatility, narrow price range",
     characteristics |-> <<"Low realized volatility", "Near-zero trend slope", "Declining or stable volume">>,
     risks |-> <<"Overtrading", "Noise dominates price", "Breakouts often fail">>]

TemplateP2 ==
    [name |-> "Volatility Expansion",
     description |-> "Sudden increase in volatility, transition regime",
     characteristics |-> <<"Sharp volatility increase", "Volume spikes", "No clear directional trend yet">>,
     risks |-> <<"Risk increases sharply", "Poor position sizing leads to drawdowns">>]

TemplateP3 ==
    [name |-> "Trending Up",
     description |-> "Positive trend with stable momentum",
     characteristics |-> <<"Positive trend slope", "Moderate volatility", "Healthy volume participation">>,
     risks |-> <<"Counter-trend trades suffer", "Late entries may face pullbacks">>]

TemplateP4 ==
    [name |-> "Trending Down",
     description |-> "Negative trend with controlled volatility",
     characteristics |-> <<"Negative trend slope", "Consistent lower highs/lows", "Sustained selling pressure">>,
     risks |-> <<"Long trades face headwinds", "Risk management critical">>]

TemplateP5 ==
    [name |-> "High Volatility Whipsaw",
     description |-> "Very high volatility with frequent direction changes",
     characteristics |-> <<"Extreme volatility", "Large intraday ranges", "Volume spikes without follow-through">>,
     risks |-> <<"Stop losses hit frequently", "Emotional trading leads to losses">>]

TemplateP6 ==
    [name |-> "Volatility Compression",
     description |-> "Decreasing volatility, pre-breakout coiling",
     characteristics |-> <<"Decreasing volatility", "Tightening price range", "Declining volume">>,
     risks |-> <<"Premature entries fail", "Risk-reward asymmetric">>]

TemplateP7 ==
    [name |-> "Exhaustion / Blow-Off",
     description |-> "Sharp price movement with extreme volume",
     characteristics |-> <<"Sharp price move", "Extremely high volume", "Often followed by reversal">>,
     risks |-> <<"Late entries suffer", "Sharp reversal risk">>]

TemplateP8 ==
    [name |-> "Mean-Reversion Dominant",
     description |-> "Price oscillates around mean, extremes fade",
     characteristics |-> <<"Price reverts after extremes", "Moderate symmetric volatility", "Stable volume">>,
     risks |-> <<"Trend-following underperforms", "Patience required">>]

TemplateP9 ==
    [name |-> "Illiquid / Thin Participation",
     description |-> "Low volume with irregular price jumps",
     characteristics |-> <<"Low volume", "Irregular price movements", "Large bid-ask impact">>,
     risks |-> <<"Slippage dominates", "Position sizing errors amplified">>]

PATTERN_TEMPLATES ==
    [p \in {"P1", "P2", "P3", "P4", "P5", "P6", "P7", "P8", "P9"} |->
        CASE p = "P1" -> TemplateP1 [] p = "P2" -> TemplateP2
          [] p = "P3" -> TemplateP3 [] p = "P4" -> TemplateP4
          [] p = "P5" -> TemplateP5 [] p = "P6" -> TemplateP6
          [] p = "P7" -> TemplateP7 [] p = "P8" -> TemplateP8
          [] OTHER -> TemplateP9]

-----------------------------------------------------------------------------
(* pattern_learning.py: map_clusters_to_patterns. A Python dict is a       *)
(* function; centroid values are integers (exactly representable floats).  *)

Put(d, k, v) == [x \in (DOMAIN d) \cup {k} |-> IF x = k THEN v ELSE d[x]]

Range(d) == {d[x] : x \in DOMAIN d}

\* idx.get(name, 0) with idx = {name: i for i, name in enumerate(feature_cols)}
IdxGet(cols, name) ==
    LET at == {j \in 1..Len(cols) : cols[j] = name}
    IN  IF at = {} THEN 0
        ELSE (CHOOSE j \in at : \A j2 \in at : j2 <= j) - 1

\* c[idx.get(name, 0)]
Feat(c, cols, name) == c[IdxGet(cols, name) + 1]

\* the dict `scores` in insertion order, as <<pattern id, 2 * score>> pairs
\* (doubled so that volatility_10d * 0.5 stays an integer)
PatternScores(c, cols) ==
    LET vol10 == Feat(c, cols, "volatility_10d")
        ts10 == Feat(c, cols, "trend_slope_10d")
        mom10 == Feat(c, cols, "momentum_10d")
        mom5 == Feat(c, cols, "momentum_5d")
        rc10 == Feat(c, cols, "range_compression_10d")
        vr10 == Feat(c, cols, "volume_ratio_10d")
        dd20 == Feat(c, cols, "drawdown_20d")
    IN  << <<"P1", 2 * (-Abs(vol10) - Abs(ts10))>>,
           <<"P2", 2 * (vol10 - Abs(ts10))>>,
           <<"P3", 2 * (ts10 + mom10)>>,
           <<"P4", 2 * (-ts10 - mom10)>>,
           <<"P5", 2 * (vol10 + Abs(mom5))>>,
           <<"P6", 2 * (-vol10 - rc10)>>,
           <<"P7", 2 * (vr10 + Abs(dd20))>>,
           <<"P8", -2 * Abs(ts10) + vol10>>,
           <<"P9", 2 * (-vr10)>> >>

\* mutant: an element is placed before the elements equal to it
RECURSIVE InsertDescBeforeEqual(_, _)
InsertDescBeforeEqual(sorted, e) ==
    IF sorted = <<>> THEN <<e>>
    ELSE IF e[2] >= Head(sorted)[2] THEN <<e>> \o sorted
    ELSE <<Head(sorted)>> \o InsertDescBeforeEqual(Tail(sorted), e)

\* sorted(..., key=score, reverse=True) is stable: an element goes after
\* every element whose score is greater than or equal to its own
RECURSIVE InsertDesc(_, _)
InsertDesc(sorted, e) ==
    IF sorted = <<>> THEN <<e>>
    ELSE IF e[2] > Head(sorted)[2] THEN <<e>> \o sorted
    ELSE <<Head(sorted)>> \o InsertDesc(Tail(sorted), e)

\* mutant: ascending order (reverse=True left out)
RECURSIVE SortedAsc(_)
SortedAsc(items) ==
    IF items = <<>> THEN <<>>
    ELSE LET rest == SortedAsc(SubSeq(items, 1, Len(items) - 1))
             e == items[Len(items)]
             below == SelectSeq(rest, LAMBDA x : x[2] <= e[2])
             above == SelectSeq(rest, LAMBDA x : x[2] > e[2])
         IN  below \o <<e>> \o above

RECURSIVE SortedDesc(_)
SortedDesc(items) ==
    IF items = <<>> THEN <<>>
    ELSE InsertDesc(SortedDesc(SubSeq(items, 1, Len(items) - 1)), items[Len(items)])

\* mutant: the best pattern is taken whether or not it is already used
FirstAny(sorted_patterns, used) == <<sorted_patterns[1][1]>>

\* the loop of lines 243-247: the first pattern not in used_patterns, if any
RECURSIVE FirstAvailable(_, _)
FirstAvailable(sorted_patterns, used) ==
    IF sorted_patterns = <<>> THEN <<>>
    ELSE IF Head(sorted_patterns)[1] \notin used THEN <<Head(sorted_patterns)[1]>>
    ELSE FirstAvailable(Tail(sorted_patterns), used)

\* one iteration of the loop over clusters, lines 208-247
MapStep(mapping, used, cid, c, cols) ==
    LET sorted_patterns == SortedDesc(PatternScores(c, cols))
        pick == FirstAvailable(sorted_patterns, used)
    IN  IF pick = <<>> THEN [mapping |-> mapping, used |-> used]
        ELSE [mapping |-> Put(mapping, cid, pick[1]),
              used |-> used \cup {pick[1]}]

RECURSIVE MapLoop(_, _, _, _)
MapLoop(st, cid, cents, cols) ==
    IF cid >= Len(cents) THEN st
    ELSE MapLoop(MapStep(st.mapping, st.used, cid, cents[cid + 1], cols),
                 cid + 1, cents, cols)

map_clusters_to_patterns(cents, cols) ==
    MapLoop([mapping |-> <<>>, used |-> {}], 0, cents, cols).mapping

-----------------------------------------------------------------------------
(* pattern_learning.py: calculate_pattern_stats and save_artifacts.        *)

\* (labels == cluster_id).sum()
CountLabel(ls, cid) == Cardinality({t \in 1..Len(ls) : ls[t] = cid})

\* binary64 arithmetic on non-negative values. A natural number is a string
\* of limbs (digits in base 2^LimbBits), most significant first and not 0;
\* <<>> is 0. A double is [m, e]: m is the significand, a natural number of
\* at most Precision bits, and the value is m * 2^e.
Precision == 53

LimbBits == 9

Radix == 2 ^ LimbBits

RECURSIVE IntLimbs(_)
IntLimbs(n) == IF n = 0 THEN <<>> ELSE Append(IntLimbs(n \div Radix), n % Radix)

RECURSIVE LimbsInt(_)
LimbsInt(m) ==
    IF m = <<>> THEN 0
    ELSE Radix * LimbsInt(SubSeq(m, 1, Len(m) - 1)) + m[Len(m)]

\* number of bits of m
BitLen(m) ==
    IF m = <<>> THEN 0
    ELSE LimbBits * (Len(m) - 1)
         + Cardinality({k \in 0..(LimbBits - 1) : 2 ^ k <= m[1]})

\* bit p of m, bit 0 being the least significant
Bit(m, p) == (m[Len(m) - (p \div LimbBits)] \div (2 ^ (p % LimbBits))) % 2

\* m \div 2^d
ShiftRight(m, d) ==
    LET sh == d % LimbBits
        kept == Len(m) - (d \div LimbBits)
        r == [j \in 1..(IF kept < 0 THEN 0 ELSE kept) |->
                (IF j = 1 THEN 0 ELSE (m[j - 1] % (2 ^ sh)) * (2 ^ (LimbBits - sh)))
                + (m[j] \div (2 ^ sh))]
    IN  IF r # <<>> /\ r[1] = 0 THEN Tail(r) ELSE r

\* m + 1
Incr(m) ==
    LET nines == Cardinality({j \in 1..Len(m) :
                                 \A k \in j..Len(m) : m[k] = Radix - 1})
    IN  IF nines = Len(m) THEN <<1>> \o [j \in 1..Len(m) |-> 0]
        ELSE [j \in 1..Len(m) |->
                 IF j > Len(m) - nines THEN 0
                 ELSE IF j = Len(m) - nines THEN m[j] + 1
                 ELSE m[j]]

\* the integer nearest to (m + s) / 2^d, ties to even, where 0 <= s < 1 and
\* sticky tells that s # 0
RoundShift(m, d, sticky) ==
    IF d = 0 THEN m
    ELSE IF d > BitLen(m) THEN <<>>
    ELSE LET keep == ShiftRight(m, d)
             guard == Bit(m, d - 1)
             rest == sticky \/ \E p \in 0..(d - 2) : Bit(m, p) = 1
             odd == keep # <<>> /\ keep[Len(keep)] % 2 = 1
         IN  IF guard = 1 /\ (rest \/ odd) THEN Incr(keep) ELSE keep

Float(m, e) == [m |-> m, e |-> e]

\* round to nearest, ties to even: the double nearest to (m + s) * 2^e
RoundFloat(m, e, sticky) ==
    IF BitLen(m) <= Precision THEN Float(m, e)
    ELSE LET d == BitLen(m) - Precision
             r == RoundShift(m, d, sticky)
         IN  IF BitLen(r) > Precision THEN Float(ShiftRight(r, 1), e + d + 1)
             ELSE Float(r, e + d)

\* binary long division, `steps` bits: the quotient digits q found so far
\* and the remainder rem < n
RECURSIVE DivChunk(_, _, _, _)
DivChunk(rem, n, steps, q) ==
    IF steps = 0 THEN [q |-> q, rem |-> rem]
    ELSE LET b == IF 2 * rem >= n THEN 1 ELSE 0
         IN  DivChunk(2 * rem - b * n, n, steps - 1, 2 * q + b)

\* the limbs of the quotient after the limbs m, down to the unit 2^e, until
\* the division ends or m has Precision + 2 bits
RECURSIVE DivLimbs(_, _, _, _)
DivLimbs(rem, n, m, e) ==
    IF rem = 0 \/ BitLen(m) >= Precision + 2
    THEN [m |-> m, e |-> e, sticky |-> rem # 0]
    ELSE LET c == DivChunk(rem, n, LimbBits, 0)
         IN  DivLimbs(c.rem, n,
                      IF m = <<>> /\ c.q = 0 THEN <<>> ELSE Append(m, c.q),
                      e - LimbBits)

\* the double c / n of integers c >= 0 and n > 0
FloatDiv(c, n) ==
    LET d == DivLimbs(c % n, n, IntLimbs(c \div n), 0)
    IN  RoundFloat(d.m, d.e, d.sticky)

\* long multiplication from the last limb: m * k, given the limbs acc found
\* below position pos and the carry into position pos
RECURSIVE MulLimbs(_, _, _, _, _)
MulLimbs(m, pos, k, carry, acc) ==
    IF carry = 0 /\ pos = 0 THEN acc
    ELSE LET t == (IF pos = 0 THEN 0 ELSE m[pos] * k) + carry
         IN  MulLimbs(m, IF pos = 0 THEN 0 ELSE pos - 1, k, t \div Radix,
                      IF Len(acc) = 0 THEN <<t % Radix>> ELSE <<t % Radix>> \o acc)

\* the double x * k for an integer k, 2 <= k <= Radix
FloatMul(x, k) ==
    IF x.m = <<>> THEN x
    ELSE RoundFloat(MulLimbs(x.m, Len(x.m), k, 0, <<>>), x.e, FALSE)

\* np.rint of a double below 2^31: the nearest integer, ties to even
Rint(x) ==
    IF x.e >= 0 THEN LimbsInt(x.m) * 2 ^ x.e
    ELSE LimbsInt(RoundShift(x.m, -x.e, FALSE))

\* round(x, 2) of a numpy float64: rint(x * 100) / 100. The result is the
\* double nearest to h/100 and is kept as the rational h/100.
Round2(x) == Q(Rint(FloatMul(x, 100)), 100)

\* round(count / len(labels) * 100, 2); numpy gives nan for 0 / 0
Percentage(count, n) ==
    IF n = 0 THEN NaN ELSE Round2(FloatMul(FloatDiv(count, n), 100))

\* the keys of a dict keyed by cluster id, in insertion (ascending) order
RECURSIVE KeysAsc(_)
KeysAsc(S) ==
    IF S = {} THEN <<>>
    ELSE LET m == CHOOSE x \in S : \A y \in S : x <= y
         IN  <<m>> \o KeysAsc(S \ {m})

\* mutant: the count of rows is taken over all labels
StatsOfAll(ls, cid) ==
    [sampleCount |-> Len(ls), percentage |-> Percentage(Len(ls), Len(ls))]

StatsOf(ls, cid) ==
    [sampleCount |-> CountLabel(ls, cid),
     percentage |-> Percentage(CountLabel(ls, cid), Len(ls))]

RECURSIVE StatsLoop(_, _, _, _)
StatsLoop(stats, cids, ls, mapping) ==
    IF cids = <<>> THEN stats
    ELSE StatsLoop(Put(stats, mapping[Head(cids)], StatsOf(ls, Head(cids))),
                   Tail(cids), ls, mapping)

calculate_pattern_stats(ls, mapping) ==
    StatsLoop(<<>>, KeysAsc(DOMAIN mapping), ls, mapping)

\* mutant: no .copy(), the writes go to the entry of PATTERN_TEMPLATES itself
TemplateAliased(entry, written) == written

\* PATTERN_TEMPLATES[pattern_id].copy(): the keys written afterwards go to
\* the copy, the catalog entry stays as it was
TemplateAfterWrites(entry, written) == entry

\* one iteration of the loop of lines 285-293
SaveStep(st, cid, cents, mapping, stats) ==
    LET pattern_id == mapping[cid]
        t1 == Put(st.templates[pattern_id], "clusterId", cid)
        t2 == Put(t1, "centroid", cents[cid + 1])
        template == IF pattern_id \in DOMAIN stats
                    THEN Put(t2, "stats", stats[pattern_id]) ELSE t2
    IN  [patterns |-> Put(st.patterns, pattern_id, template),
         templates |-> [st.templates EXCEPT ![pattern_id] =
                           TemplateAfterWrites(@, template)]]

RECURSIVE SaveLoop(_, _, _, _, _)
SaveLoop(st, cids, cents, mapping, stats) ==
    IF cids = <<>> THEN st
    ELSE SaveLoop(SaveStep(st, Head(cids), cents, mapping, stats),
                  Tail(cids), cents, mapping, stats)

\* the dict `patterns` written to patterns.json, and PATTERN_TEMPLATES after
save_artifacts(cents, mapping, stats, tpls) ==
    SaveLoop([patterns |-> <<>>, templates |-> tpls],
             KeysAsc(DOMAIN mapping), cents, mapping, stats)

-----------------------------------------------------------------------------
(* map_clusters_to_patterns, one loop iteration per step, on bounded       *)
(* centroid matrices and feature schemas.                                  *)

Without(cols, name) == SelectSeq(cols, LAMBDA x : x # name)

\* the schema produced by prepare_features, and schemas lacking one feature
Schemas == {FeatureCols,
            Without(FeatureCols, "momentum_5d"),
            Without(FeatureCols, "volatility_10d")}

ScoredFeatures == {"volatility_10d", "trend_slope_10d", "momentum_10d",
                   "momentum_5d", "range_compression_10d",
                   "volume_ratio_10d", "drawdown_20d"}

\* centroid rows: the origin (all scores tie) and a row varying with the cluster
ZeroRow(d) == [j \in 1..d |-> 0]

WaveRow(cid, d) == [j \in 1..d |-> ((cid + 2 * j) % 5) - 2]

Matrices(k, d) ==
    {[c \in 1..k |-> IF zero[c] THEN ZeroRow(d) ELSE WaveRow(c - 1, d)] :
        zero \in [1..k -> BOOLEAN]}

InitMap ==
    /\ pc = "map"
    /\ feature_cols \in Schemas
    /\ n_clusters \in 0..MaxClusters
    /\ centroids \in Matrices(n_clusters, Len(feature_cols))
    /\ cluster_id = 0
    /\ pattern_mapping = <<>>
    /\ used_patterns = {}
    /\ df = <<>> /\ stocks = <<>> /\ i = 0 /\ all_features = <<>>
    /\ features_df = <<>> /\ X = <<>> /\ metadata = <<>>
    /\ labels = <<>> /\ pattern_stats = <<>> /\ patterns = <<>>
    /\ templates = PATTERN_TEMPLATES
    /\ close = <<>> /\ window = 0 /\ result = <<>>

\* one iteration of `for cluster_id in range(len(centroids))`
MapIter ==
    /\ pc = "map"
    /\ cluster_id < n_clusters
    /\ LET st == MapStep(pattern_mapping, used_patterns, cluster_id,
                         centroids[cluster_id + 1], feature_cols)
       IN  /\ pattern_mapping' = st.mapping
           /\ used_patterns' = st.used
    /\ cluster_id' = cluster_id + 1
    /\ UNCHANGED <<pc, featVars, feature_cols, centroids, n_clusters, outVars,
                   statVars>>

\* `return pattern_mapping`
MapReturn ==
    /\ pc = "map"
    /\ cluster_id = n_clusters
    /\ pc' = "mapped"
    /\ UNCHANGED <<featVars, mapVars, outVars, statVars>>

NextMap == MapIter \/ MapReturn

SpecMap == InitMap /\ [][NextMap]_vars

CatalogSize == Cardinality(DOMAIN PATTERN_TEMPLATES)

Min(a, b) == IF a <= b THEN a ELSE b

\* C1: the cluster -> pattern mapping is injective after every iteration of
\* the loop over clusters: no pattern id is assigned to two cluster ids.
C1_MappingInjective ==
    /\ \A c1, c2 \in DOMAIN pattern_mapping :
          pattern_mapping[c1] = pattern_mapping[c2] => c1 = c2
    /\ Cardinality(Range(pattern_mapping)) = Cardinality(DOMAIN pattern_mapping)
    /\ used_patterns = Range(pattern_mapping)
    /\ Range(pattern_mapping) \subseteq DOMAIN PATTERN_TEMPLATES

C1_Witness ==
    /\ pc = "mapped"
    /\ n_clusters >= 3
    /\ centroids[1] = centroids[2]
    /\ Cardinality(DOMAIN pattern_mapping) = n_clusters

\* the pattern ids in catalog order (the insertion order of `scores`)
PatternIds == <<"P1", "P2", "P3", "P4", "P5", "P6", "P7", "P8", "P9">>

CatalogPos(p) == CHOOSE j \in 1..Len(PatternIds) : PatternIds[j] = p

ClaimedBelow(cid) == {pattern_mapping[c] : c \in {x \in DOMAIN pattern_mapping : x < cid}}

AvailableTo(cid) == (DOMAIN PATTERN_TEMPLATES) \ ClaimedBelow(cid)

\* C9: clusters are processed in ascending id order; each gets the pattern
\* with the highest score among those not claimed by a lower-id cluster; a
\* cluster is unmapped iff all 9 patterns are claimed, so clusters
\* 0..min(k,9)-1 are mapped and the rest are not; the loop always returns.
C9_GreedyBestAvailable ==
    /\ pc \in {"map", "mapped"}
    /\ cluster_id <= n_clusters
    /\ pc = "mapped" => cluster_id = n_clusters
    /\ DOMAIN pattern_mapping = 0..(Min(cluster_id, CatalogSize) - 1)
    /\ \A cid \in DOMAIN pattern_mapping :
          LET sc == PatternScores(centroids[cid + 1], feature_cols)
              best == sc[CatalogPos(pattern_mapping[cid])][2]
          IN  /\ pattern_mapping[cid] \in AvailableTo(cid)
              /\ \A q \in AvailableTo(cid) : sc[CatalogPos(q)][2] <= best
    /\ \A cid \in 0..(cluster_id - 1) :
          cid \notin DOMAIN pattern_mapping
              <=> ClaimedBelow(cid) = DOMAIN PATTERN_TEMPLATES

C9_Witness ==
    /\ pc = "mapped"
    /\ n_clusters > CatalogSize
    /\ feature_cols = FeatureCols
    /\ \E cid \in DOMAIN pattern_mapping :
          LET sc == PatternScores(centroids[cid + 1], feature_cols)
          IN  \E q \in ClaimedBelow(cid) :
                  sc[CatalogPos(q)][2] > sc[CatalogPos(pattern_mapping[cid])][2]

\* C10: among the still-available patterns that tie for the highest score
\* the cluster gets the first in catalog order P1..P9.
C10_TieFirstInCatalog ==
    \A cid \in DOMAIN pattern_mapping :
        LET sc == PatternScores(centroids[cid + 1], feature_cols)
            got == CatalogPos(pattern_mapping[cid])
        IN  \A q \in AvailableTo(cid) :
                sc[CatalogPos(q)][2] = sc[got][2] => got <= CatalogPos(q)

C10_Witness ==
    /\ pc = "mapped"
    /\ \E cid \in DOMAIN pattern_mapping :
          LET sc == PatternScores(centroids[cid + 1], feature_cols)
              got == CatalogPos(pattern_mapping[cid])
          IN  /\ cid >= 1
              /\ centroids[cid + 1] # ZeroRow(Len(feature_cols))
              /\ \E q \in AvailableTo(cid) :
                    /\ CatalogPos(q) # got
                    /\ sc[CatalogPos(q)][2] = sc[got][2]

MissingScored(cols) == {name \in ScoredFeatures : \A j \in 1..Len(cols) : cols[j] # name}

\* C7: with a schema that lacks a feature used by a scoring formula the
\* function fails and no cluster is ever given a pattern.
C7_FailsOnMissingFeature ==
    MissingScored(feature_cols) # {} => DOMAIN pattern_mapping = {}

-----------------------------------------------------------------------------
(* main(), lines 321-331: map_clusters_to_patterns, calculate_pattern_stats *)
(* and save_artifacts in sequence, on bounded centroids and labels.        *)

\* label values: the lowest and the highest cluster ids
LabelValues(k) == {c \in 0..(k - 1) : c <= 1 \/ c >= k - 2}

\* labels as fit_predict returns them (at least one row, values in [0, k)):
\* short vectors over the label values, and vectors in which every cluster
\* has a row
LabelVectors(k) ==
    (SeqsUpTo(LabelValues(k), MaxLabels) \ {<<>>})
    \cup {[t \in 1..k |-> t - 1] \o e : e \in SeqsUpTo(LabelValues(k), MaxExtra)}

PipeMatrices(k, d) ==
    {[c \in 1..k |-> ZeroRow(d)],
     [c \in 1..k |-> WaveRow(c - 1, d)],
     [c \in 1..k |-> IF c % 2 = 0 THEN ZeroRow(d) ELSE WaveRow(c - 1, d)]}

InitPipe ==
    /\ pc = "main"
    /\ feature_cols = FeatureCols
    /\ n_clusters \in 1..MaxClusters
    /\ centroids \in PipeMatrices(n_clusters, Len(feature_cols))
    /\ labels \in LabelVectors(n_clusters)
    /\ cluster_id = 0
    /\ pattern_mapping = <<>>
    /\ used_patterns = {}
    /\ pattern_stats = <<>>
    /\ patterns = <<>>
    /\ templates = PATTERN_TEMPLATES
    /\ df = <<>> /\ stocks = <<>> /\ i = 0 /\ all_features = <<>>
    /\ features_df = <<>> /\ X = <<>> /\ metadata = <<>>
    /\ close = <<>> /\ window = 0 /\ result = <<>>

\* line 322
MapClusters ==
    /\ pc = "main"
    /\ pattern_mapping' = map_clusters_to_patterns(centroids, feature_cols)
    /\ used_patterns' = Range(pattern_mapping')
    /\ cluster_id' = n_clusters
    /\ pc' = "mapped"
    /\ UNCHANGED <<featVars, feature_cols, centroids, n_clusters, outVars,
                   statVars>>

\* line 328
CalculateStats ==
    /\ pc = "mapped"
    /\ pattern_stats' = calculate_pattern_stats(labels, pattern_mapping)
    /\ pc' = "stats"
    /\ UNCHANGED <<featVars, mapVars, labels, patterns, templates, statVars>>

\* line 331
SaveArtifacts ==
    /\ pc = "stats"
    /\ LET out == save_artifacts(centroids, pattern_mapping, pattern_stats,
                                 templates)
       IN  /\ patterns' = out.patterns
           /\ templates' = out.templates
    /\ pc' = "saved"
    /\ UNCHANGED <<featVars, mapVars, labels, pattern_stats, statVars>>

NextPipe == MapClusters \/ CalculateStats \/ SaveArtifacts

SpecPipe == InitPipe /\ [][NextPipe]_vars

RECURSIVE SumOver(_, _)
SumOver(S, f) ==
    IF S = {} THEN 0
    ELSE LET x == CHOOSE y \in S : TRUE IN f[x] + SumOver(S \ {x}, f)

SampleCountSum ==
    SumOver(DOMAIN pattern_stats,
            [p \in DOMAIN pattern_stats |-> pattern_stats[p].sampleCount])

\* a percentage in hundredths of a percent
Hundredths(v) == v[2] * (100 \div v[3])

PercentagesDefined ==
    \A p \in DOMAIN pattern_stats : ~IsNaN(pattern_stats[p].percentage)

PercentageSum ==
    SumOver(DOMAIN pattern_stats,
            [p \in DOMAIN pattern_stats |-> Hundredths(pattern_stats[p].percentage)])

\* the sum of the percentages is 100 up to half a hundredth per pattern
PercentagesSumTo100 ==
    /\ PercentagesDefined
    /\ 2 * Abs(PercentageSum - 10000) <= Cardinality(DOMAIN pattern_stats)

\* C2 (as stated): for every k, k > 9 included, the sampleCount values sum
\* to len(labels) and the percentages sum to 100 within rounding tolerance.
C2_StatsCoverAllRowsAll ==
    pc \in {"stats", "saved"} =>
        /\ SampleCountSum = Len(labels)
        /\ PercentagesSumTo100

\* C2 (amended): for a non-empty label vector and k at most the catalog
\* size 9, the sampleCount values sum to len(labels) and the percentages
\* sum to 100 within rounding tolerance.
C2_StatsCoverAllRows ==
    (pc \in {"stats", "saved"} /\ n_clusters <= CatalogSize /\ Len(labels) > 0) =>
        /\ SampleCountSum = Len(labels)
        /\ PercentagesSumTo100

C2_Witness ==
    /\ pc = "stats"
    /\ n_clusters = CatalogSize
    /\ Len(labels) = 9
    /\ PercentageSum = 9999

EntryKeys == {"name", "description", "characteristics", "risks",
              "clusterId", "centroid", "stats"}

\* C8: after map -> stats -> save the published catalog has exactly one
\* entry per mapped pattern id, min(k, 9) in all; the entry of pattern p
\* carries the cluster c with mapping[c] = p, row c of the centroid matrix,
\* the number of rows labeled c and the fields of template p; and
\* PATTERN_TEMPLATES is left unchanged.
C8_PublishedCatalog ==
    pc = "saved" =>
        /\ DOMAIN patterns = Range(pattern_mapping)
        /\ Cardinality(DOMAIN patterns) = Min(n_clusters, CatalogSize)
        /\ \A p \in DOMAIN patterns :
              /\ DOMAIN patterns[p] = EntryKeys
              /\ patterns[p].clusterId \in DOMAIN pattern_mapping
              /\ pattern_mapping[patterns[p].clusterId] = p
              /\ patterns[p].centroid = centroids[patterns[p].clusterId + 1]
              /\ patterns[p].stats.sampleCount
                    = Cardinality({t \in 1..Len(labels) :
                                      labels[t] = patterns[p].clusterId})
              /\ patterns[p].stats = pattern_stats[p]
              /\ \A key \in {"name", "description", "characteristics", "risks"} :
                    patterns[p][key] = PATTERN_TEMPLATES[p][key]
        /\ templates = PATTERN_TEMPLATES

C8_Witness ==
    /\ pc = "saved"
    /\ n_clusters > CatalogSize
    /\ Cardinality(DOMAIN patterns) = CatalogSize
    /\ \E p \in DOMAIN patterns :
          /\ patterns[p].stats.sampleCount = 2
          /\ patterns[p].clusterId = 1
    /\ \E t \in 1..Len(labels) : labels[t] \notin DOMAIN pattern_mapping

====
